---- MODULE Spec2Model ----
(***************************************************************************)
(* Model of the two scripts of pantograph-stereo-depth:                    *)
(*   setup_pantograph_scene.py   (Scene Builder)                           *)
(*   capture_pantograph_data.py  (Capture Configurator)                    *)
(*                                                                         *)
(* Numbers are fixed point.  Scene lengths are in units of 0.1 mm          *)
(* (10000 per metre), camera intrinsics in units of 0.0001 mm, angles in   *)
(* degrees.  Floating-point rounding is not modelled.                      *)
(***************************************************************************)
EXTENDS Integers, Sequences, FiniteSets, TLC

\* ------------------------------------------------------------------ bounds
MaxOps == 2            \* longest stale op list of a camera (baseline runs)
MaxSceneOps == 1       \* longest stale op list of a camera (script runs)
MaxBaselineK == 2      \* baselines 0, B/2, ..., K*B/2 are passed
MaxCalls == 2          \* calls of setup_stereo_baseline in a baseline run
MaxViewerUpdates == 2  \* viewer-loop iterations before the window closes

\* ------------------------------------------------------- program constants
BASELINE_M == 1200          \* 0.12 m
CAMERA_DISTANCE_M == 15000  \* 1.5 m
IMAGE_WIDTH == 1920
HFOV_DEG == 90
NUM_FRAMES == 30
DRAIN_UPDATES == 5
CaptureBaseline == 1200     \* setup_stereo_baseline(0.12)
WIRE_POINTS == 21
WIRE_VERTEX_COUNT == 21
WIRE_WIDTH_COUNT == 21

\* ------------------------------------------------------------------- paths
Pantograph == "/World/Pantograph"
Rig == "/World/StereoCameraRig"
LeftCamera == "/World/StereoCameraRig/LeftCamera"
RightCamera == "/World/StereoCameraRig/RightCamera"
Ground == "/World/Ground"
DomeLight == "/World/DomeLight"
Dome == "/World/DomeLight/Dome"
CatenaryWire == "/World/CatenaryWire"

Cams == {LeftCamera, RightCamera}
XformPaths == {Pantograph, Rig, LeftCamera, RightCamera, DomeLight}
Paths == {Pantograph, Rig, LeftCamera, RightCamera, Ground, DomeLight, Dome,
          CatenaryWire}

\* ------------------------------------------------------------ vector maths
Origin == <<0, 0, 0>>
VAdd(p, q) == <<p[1] + q[1], p[2] + q[2], p[3] + q[3]>>
VSub(p, q) == <<p[1] - q[1], p[2] - q[2], p[3] - q[3]>>
VMul(p, q) == <<p[1] * q[1], p[2] * q[2], p[3] * q[3]>>
Dot(p, q) == p[1] * q[1] + p[2] * q[2] + p[3] * q[3]

\* floor(sqrt(n)) by bisection on lo..hi
RECURSIVE ISqrt(_, _, _)
ISqrt(n, lo, hi) ==
    IF lo >= hi THEN lo
    ELSE LET mid == (lo + hi + 1) \div 2
         IN  IF mid * mid <= n THEN ISqrt(n, mid, hi) ELSE ISqrt(n, lo, mid - 1)

\* Gf.Vec3d.GetLength(), rounded to the unit (0.1 mm, the precision that
\* f"{dist*1000:.1f}" prints)
GetLength(v) ==
    LET n == Dot(v, v)
        r == ISqrt(n, 0, 40000)
    IN  IF n - r * r > r THEN r + 1 ELSE r

\* --------------------------------------------------------------- xform ops
TranslateOp(v) == [type |-> "translate", value |-> v]
RotateXYZOp(v) == [type |-> "rotateXYZ", value |-> v]
ScaleOp(v) == [type |-> "scale", value |-> v]

RotX90(p) == <<p[1], -p[3], p[2]>>
RotY90(p) == <<p[3], p[2], -p[1]>>
RotZ90(p) == <<-p[2], p[1], p[3]>>

RECURSIVE Turns(_, _, _)
\* k quarter turns about one axis (axis 1 = X, 2 = Y, 3 = Z)
Turns(axis, k, p) ==
    IF k = 0 THEN p
    ELSE Turns(axis, k - 1,
               IF axis = 1 THEN RotX90(p)
               ELSE IF axis = 2 THEN RotY90(p) ELSE RotZ90(p))

\* the point transform of one op; rotations are multiples of 90 degrees
ApplyOp(op, p) ==
    IF op.type = "translate" THEN VAdd(p, op.value)
    ELSE IF op.type = "scale" THEN VMul(p, op.value)
    ELSE Turns(3, (op.value[3] \div 90) % 4,
               Turns(2, (op.value[2] \div 90) % 4,
                     Turns(1, (op.value[1] \div 90) % 4, p)))

RECURSIVE LocalTransform(_, _)
\* xformOpOrder composes with the first op outermost: the last op acts on
\* the point first
LocalTransform(ops, p) ==
    IF ops = <<>> THEN p
    ELSE ApplyOp(Head(ops), LocalTransform(Tail(ops), p))

\* the local pose of a prim: the images of the origin and of the three axes
LocalPose(ops) ==
    LET o == LocalTransform(ops, Origin)
    IN  [pos |-> o,
         ex |-> VSub(LocalTransform(ops, <<1, 0, 0>>), o),
         ey |-> VSub(LocalTransform(ops, <<0, 1, 0>>), o),
         ez |-> VSub(LocalTransform(ops, <<0, 0, 1>>), o)]

\* --------------------------------------------------------------- the stage
\* Camera attributes before any Set: the schema's fallback values
\* (focal length 50 mm, apertures 20.955 mm x 15.2908 mm, clip 1..1000000
\* in tenths of a stage unit)
DefaultCamera ==
    [focalLength |-> 500000, horizontalAperture |-> 209550,
     verticalAperture |-> 152908, clippingRange |-> <<10, 10000000>>]

NoWire == [points |-> <<>>, curveVertexCounts |-> <<>>, widths |-> <<>>,
           type |-> "", basis |-> ""]

\* omni.usd.get_context().new_stage(): no prim, no op, no attribute
EmptyStage ==
    [prims |-> {},
     ops |-> [p \in XformPaths |-> <<>>],
     semantics |-> [p \in Paths |-> ""],
     camera |-> [c \in Cams |-> DefaultCamera],
     wire |-> NoWire,
     references |-> {}]

\* <Schema>.Define(stage, path)
Define(st, path) == [st EXCEPT !.prims = @ \cup {path}]

\* xformable.Add<Kind>Op().Set(value): the op goes to the end of xformOpOrder
AddXformOp(st, path, op) == [st EXCEPT !.ops[path] = Append(@, op)]

\* prim.IsValid() of stage.GetPrimAtPath(path)
IsValid_Always(st, path) == TRUE
IsValid(st, path) == path \in st.prims

\* ------------------------------------------------------ Scene Builder maths
\* np.tan(np.radians(deg)) in thousandths, for the angles the script uses
TanMilli(deg) == IF deg = 45 THEN 1000 ELSE 0

\* focal_length_mm of lines 52-53, in 0.0001 mm: pixels times 3.6 um
FocalLengthFromHfov(width, hfov) ==
    (((width \div 2) * 1000) \div TanMilli(hfov \div 2)) * 36

\* -BASELINE_M / 2 and BASELINE_M / 2 of lines 57 and 65
BuilderLeftOffset(b) == (-b) \div 2
BuilderRightOffset(b) == b \div 2

\* line 89: x = (i - 10) * 0.3
WireX_OffCentre(i) == (i - 11) * 3000
WireX(i) == (i - 10) * 3000

\* line 90: z = 1.8 + 0.02 * x ** 2   (x * x in units of 0.0001 m^2)
WireZ(x) == 18000 + (2 * ((x * x) \div 10000)) \div 100

\* line 91: the appended tuple
WirePoint(i) == <<WireX(i), 0, WireZ(WireX(i))>>

\* lines 34-40
DefinePantograph(st) ==
    LET a == Define(st, Pantograph)
        b == AddXformOp(a, Pantograph, RotateXYZOp(<<90, 0, 0>>))
        c == AddXformOp(b, Pantograph, TranslateOp(<<0, 0, 15000>>))
    IN  [c EXCEPT !.references = @ \cup {Pantograph}]

\* lines 45-49
DefineRig(st) ==
    LET a == Define(st, Rig)
        b == AddXformOp(a, Rig, TranslateOp(<<0, -CAMERA_DISTANCE_M, 15000>>))
    IN  AddXformOp(b, Rig, RotateXYZOp(<<90, 0, 0>>))

\* lines 56-61 and 64-69: one camera of the rig at offset x
DefineCamera(st, cam, x) ==
    LET a == Define(st, cam)
        b == AddXformOp(a, cam, TranslateOp(<<x, 0, 0>>))
    IN  [b EXCEPT !.camera[cam] =
            [focalLength |-> 35000, horizontalAperture |-> 69120,
             verticalAperture |-> 38880, clippingRange |-> <<1, 1000>>]]

\* lines 74-78
DefineGround(st) == Define(st, Ground)

\* lines 81-83
DefineDomeLight(st) == Define(Define(st, DomeLight), Dome)

\* [0.012] * 21 and [21]
Repeat(v, n) == [k \in 1..n |-> v]

\* lines 93-98
DefineWire(st, points) ==
    [Define(st, CatenaryWire) EXCEPT !.wire =
        [points |-> points, curveVertexCounts |-> <<WIRE_VERTEX_COUNT>>,
         widths |-> Repeat(120, WIRE_WIDTH_COUNT),
         type |-> "cubic", basis |-> "bspline"]]

\* lines 87-91: the whole loop
WirePoints == [k \in 1..WIRE_POINTS |-> WirePoint(k - 1)]

\* the scene the Scene Builder exports (line 103)
BuilderScene ==
    DefineWire(
      DefineDomeLight(
        DefineGround(
          DefineCamera(
            DefineCamera(DefineRig(DefinePantograph(EmptyStage)),
                         LeftCamera, BuilderLeftOffset(BASELINE_M)),
            RightCamera, BuilderRightOffset(BASELINE_M)))),
      WirePoints)

\* ------------------------------------------- Capture Configurator functions
\* line 38: not left_prim.IsValid() or not right_prim.IsValid()
CamerasMissing_BothOnly(st) == ~IsValid(st, LeftCamera) /\ ~IsValid(st, RightCamera)
CamerasMissing(st) == ~IsValid(st, LeftCamera) \/ ~IsValid(st, RightCamera)

\* line 44: half_base = baseline_m / 2.0
half_base_NotHalved(b) == b
half_base(b) == b \div 2

RECURSIVE FirstTranslate(_, _)
FirstTranslate(ops, k) ==
    IF k > Len(ops) THEN 0
    ELSE IF ops[k].type = "translate" THEN k ELSE FirstTranslate(ops, k + 1)

\* lines 52-56 and 60-64: the index of the first translate op of
\* GetOrderedXformOps(), 0 when the loop leaves the variable None
FindTranslateOp_NeverFound(ops) == 0
FindTranslateOp(ops) == FirstTranslate(ops, 1)

\* lines 52-58 with line 68 (and 60-66 with 69): get or create the translate
\* op of one camera, then Set it
SetTranslate(st, cam, v) ==
    LET k == FindTranslateOp(st.ops[cam])
    IN  IF k = 0 THEN AddXformOp(st, cam, TranslateOp(v))
        ELSE [st EXCEPT !.ops[cam][k].value = v]

\* lines 30-88: the stage after setup_stereo_baseline(baseline_m); the debug
\* reads of lines 73-88 write nothing
setup_stereo_baseline(st, baseline_m) ==
    IF CamerasMissing(st) THEN st
    ELSE SetTranslate(SetTranslate(st, LeftCamera, <<-half_base(baseline_m), 0, 0>>),
                      RightCamera, <<half_base(baseline_m), 0, 0>>)

\* lines 96-97 of set_semantic_label, once the prim is known to be valid
set_semantic_label(st, prim_path, label) ==
    [st EXCEPT !.semantics[prim_path] = label]

\* ComputeLocalToWorldTransform(0).ExtractTranslation() of a camera: its
\* local transform, then the rig's (/World carries no op); the identity
\* when the prim is invalid and the bindings do not raise
CameraWorldPos(st, cam) ==
    IF IsValid(st, cam)
    THEN LocalTransform(st.ops[Rig], LocalTransform(st.ops[cam], Origin))
    ELSE Origin

\* line 139: dist = (l_pos - r_pos).GetLength()
MeasuredBaseline(st) ==
    GetLength(VSub(CameraWorldPos(st, LeftCamera), CameraWorldPos(st, RightCamera)))

\* range(n) still yields the index i
RangeHas_OneMore(i, n) == i <= n
RangeHas(i, n) == i < n

\* --------------------------------------------------------- the saved scenes
\* stale ops a saved scene may carry on a camera
StaleOps ==
    {TranslateOp(<<700, 300, 0>>), RotateXYZOp(<<0, 0, 90>>), ScaleOp(<<2, 2, 2>>)}

OpLists(n) == UNION {[1..k -> StaleOps] : k \in 0..n}

\* op lists of a camera in a saved scene: the builder's own, or stale ones
CameraOpLists(cam, n) == OpLists(n) \cup {BuilderScene.ops[cam]}

\* the rig as built, or with a scale picked up from an ancestor edit
RigOpLists == {BuilderScene.ops[Rig], Append(BuilderScene.ops[Rig], ScaleOp(<<2, 2, 2>>))}

LabelPaths == {Pantograph, Ground, CatenaryWire}

\* a saved scene: the builder's scene with some prims removed and the
\* cameras' and rig's ops replaced (a removed camera has no ops)
SavedScene(labelled, cams, lops, rops, rigops) ==
    [BuilderScene EXCEPT
        !.prims = {Rig, DomeLight, Dome} \cup labelled \cup cams,
        !.ops[LeftCamera] = IF LeftCamera \in cams THEN lops ELSE <<>>,
        !.ops[RightCamera] = IF RightCamera \in cams THEN rops ELSE <<>>,
        !.ops[Rig] = rigops]

SavedScenes(n, labelSets) ==
    {SavedScene(l, c, lo, ro, rg) :
        l \in labelSets, c \in SUBSET Cams,
        lo \in CameraOpLists(LeftCamera, n), ro \in CameraOpLists(RightCamera, n),
        rg \in RigOpLists}

NoFile == [valid |-> FALSE, scene |-> EmptyStage]
File(st) == [valid |-> TRUE, scene |-> st]

\* baselines passed to setup_stereo_baseline in the baseline runs; all even,
\* so that halving is exact as it is in binary floating point
BaselineInputs == {k * (BASELINE_M \div 2) : k \in 0..MaxBaselineK}

\* ------------------------------------------------------------------- state
VARIABLES
    script,           \* "builder", "capture", or "baseline" (function runs)
    pc,               \* the statement the script is at
    app,              \* simulation_app: "none", "running", "closed"
    scene_file,       \* the scene artifact on disk
    stage,            \* the stage held by the USD context
    focal_length_mm,  \* builder: the variable of lines 52-53 (0 before)
    wire_points,      \* builder: the list of lines 87-91
    i,                \* loop index of the loop being run
    steps,            \* rep.orchestrator.step() calls so far
    updates,          \* simulation_app.update() calls so far
    drains,           \* updates issued by the drain loop (line 143)
    render_products,  \* camera paths of the render products created
    writer,           \* "none", "initialized", "attached"
    attaches,         \* writer.attach calls so far
    closes,           \* simulation_app.close() calls so far
    frame0,           \* the baseline printed at frame 0 (-1 before)
    arg,              \* baseline_m of the last setup_stereo_baseline call
    prev_arg,         \* baseline_m of the call before that one (-1 if none)
    calls,            \* setup_stereo_baseline calls so far
    before            \* the stage as the last setup_stereo_baseline call found it

vars == <<script, pc, app, scene_file, stage, focal_length_mm, wire_points, i,
          steps, updates, drains, render_products, writer, attaches, closes,
          frame0, arg, prev_arg, calls, before>>

sceneVars == <<scene_file, stage>>
builderVars == <<focal_length_mm, wire_points>>
captureVars == <<steps, drains, render_products, writer, attaches, frame0>>
callVars == <<arg, prev_arg, calls, before>>

Fresh(s, p, file, st) ==
    /\ script = s
    /\ pc = p
    /\ app = "none"
    /\ scene_file = file
    /\ stage = st
    /\ focal_length_mm = 0
    /\ wire_points = <<>>
    /\ i = 0
    /\ steps = 0
    /\ updates = 0
    /\ drains = 0
    /\ render_products = <<>>
    /\ writer = "none"
    /\ attaches = 0
    /\ closes = 0
    /\ frame0 = -1
    /\ arg = 0
    /\ prev_arg = -1
    /\ calls = 0
    /\ before = EmptyStage

\* Either script is started.  The builder starts with no artifact; the
\* capture starts with the artifact missing or holding some saved scene.
Init ==
    \/ Fresh("builder", "b_app", NoFile, EmptyStage)
    \/ \E f \in {NoFile} \cup {File(sc) : sc \in SavedScenes(MaxSceneOps, SUBSET LabelPaths)} :
          Fresh("capture", "c_app", f, EmptyStage)

\* ----------------------------------------------------------- Scene Builder
\* line 6
BuilderApp ==
    /\ pc = "b_app"
    /\ app' = "running"
    /\ pc' = "b_stage"
    /\ UNCHANGED <<script, sceneVars, builderVars, i, updates, captureVars, closes, callVars>>

\* lines 24-29
BuilderNewStage ==
    /\ pc = "b_stage"
    /\ stage' = EmptyStage
    /\ pc' = "b_pantograph"
    /\ UNCHANGED <<script, app, scene_file, builderVars, i, updates, captureVars, closes, callVars>>

\* lines 34-42
BuilderPantograph ==
    /\ pc = "b_pantograph"
    /\ stage' = DefinePantograph(stage)
    /\ pc' = "b_rig"
    /\ UNCHANGED <<script, app, scene_file, builderVars, i, updates, captureVars, closes, callVars>>

\* lines 45-49
BuilderRig ==
    /\ pc = "b_rig"
    /\ stage' = DefineRig(stage)
    /\ pc' = "b_focal"
    /\ UNCHANGED <<script, app, scene_file, builderVars, i, updates, captureVars, closes, callVars>>

\* lines 52-53
BuilderFocalLength ==
    /\ pc = "b_focal"
    /\ focal_length_mm' = FocalLengthFromHfov(IMAGE_WIDTH, HFOV_DEG)
    /\ pc' = "b_left"
    /\ UNCHANGED <<script, app, sceneVars, wire_points, i, updates, captureVars, closes, callVars>>

\* lines 56-61
BuilderLeftCamera ==
    /\ pc = "b_left"
    /\ stage' = DefineCamera(stage, LeftCamera, BuilderLeftOffset(BASELINE_M))
    /\ pc' = "b_right"
    /\ UNCHANGED <<script, app, scene_file, builderVars, i, updates, captureVars, closes, callVars>>

\* lines 64-71
BuilderRightCamera ==
    /\ pc = "b_right"
    /\ stage' = DefineCamera(stage, RightCamera, BuilderRightOffset(BASELINE_M))
    /\ pc' = "b_ground"
    /\ UNCHANGED <<script, app, scene_file, builderVars, i, updates, captureVars, closes, callVars>>

\* lines 74-78
BuilderGround ==
    /\ pc = "b_ground"
    /\ stage' = DefineGround(stage)
    /\ pc' = "b_light"
    /\ UNCHANGED <<script, app, scene_file, builderVars, i, updates, captureVars, closes, callVars>>

\* lines 81-83, and line 87
BuilderDomeLight ==
    /\ pc = "b_light"
    /\ stage' = DefineDomeLight(stage)
    /\ wire_points' = <<>>
    /\ i' = 0
    /\ pc' = "b_wire_loop"
    /\ UNCHANGED <<script, app, scene_file, focal_length_mm, updates, captureVars, closes, callVars>>

\* lines 88-91: one iteration of the loop
BuilderWirePoint ==
    /\ pc = "b_wire_loop"
    /\ RangeHas(i, WIRE_POINTS)
    /\ wire_points' = Append(wire_points, WirePoint(i))
    /\ i' = i + 1
    /\ UNCHANGED <<script, pc, app, sceneVars, focal_length_mm, updates, captureVars, closes, callVars>>

\* lines 93-100, once the loop is exhausted
BuilderWire ==
    /\ pc = "b_wire_loop"
    /\ ~RangeHas(i, WIRE_POINTS)
    /\ stage' = DefineWire(stage, wire_points)
    /\ pc' = "b_export"
    /\ UNCHANGED <<script, app, scene_file, builderVars, i, updates, captureVars, closes, callVars>>

\* lines 103-117: export, then the printed stereo-matcher settings
BuilderExport ==
    /\ pc = "b_export"
    /\ scene_file' = File(stage)
    /\ pc' = "b_viewer"
    /\ UNCHANGED <<script, app, stage, builderVars, i, updates, captureVars, closes, callVars>>

\* lines 120-121: the window is still open
BuilderViewerUpdate ==
    /\ pc = "b_viewer"
    /\ updates < MaxViewerUpdates
    /\ updates' = updates + 1
    /\ UNCHANGED <<script, pc, app, sceneVars, builderVars, i, captureVars, closes, callVars>>

\* lines 120 and 123: is_running() is false, the app is closed
BuilderClose ==
    /\ pc = "b_viewer"
    /\ app' = "closed"
    /\ closes' = closes + 1
    /\ pc' = "done"
    /\ UNCHANGED <<script, sceneVars, builderVars, i, updates, captureVars, callVars>>

\* ----------------------------------------------------- Capture Configurator
\* lines 8-10
CaptureApp ==
    /\ pc = "c_app"
    /\ app' = "running"
    /\ pc' = "c_open"
    /\ UNCHANGED <<script, sceneVars, builderVars, i, updates, captureVars, closes, callVars>>

\* lines 21-27: the stage opens, or get_stage() is None and the script raises
CaptureOpenStage ==
    /\ pc = "c_open"
    /\ \/ /\ scene_file.valid
          /\ stage' = scene_file.scene
          /\ pc' = "c_baseline"
       \/ /\ ~scene_file.valid
          /\ stage' = stage
          /\ pc' = "raised"
    /\ UNCHANGED <<script, app, scene_file, builderVars, i, updates, captureVars, closes, callVars>>

\* line 101: setup_stereo_baseline(0.12)
CaptureBaselineCall ==
    /\ pc = "c_baseline"
    /\ before' = stage
    /\ arg' = CaptureBaseline
    /\ prev_arg' = IF calls = 0 THEN -1 ELSE arg
    /\ calls' = calls + 1
    /\ stage' = setup_stereo_baseline(stage, CaptureBaseline)
    /\ pc' = "c_label_pantograph"
    /\ UNCHANGED <<script, app, scene_file, builderVars, i, updates, captureVars, closes>>

\* lines 92-98 for one prim: label it and go on, or raise on a missing prim
Label(here, prim_path, label, next) ==
    /\ pc = here
    /\ \/ /\ IsValid(stage, prim_path)
          /\ stage' = set_semantic_label(stage, prim_path, label)
          /\ pc' = next
       \/ /\ ~IsValid(stage, prim_path)
          /\ stage' = stage
          /\ pc' = "raised"
    /\ UNCHANGED <<script, app, scene_file, builderVars, i, updates, captureVars, closes, callVars>>

\* line 104
CaptureLabelPantograph ==
    Label("c_label_pantograph", Pantograph, "pantograph", "c_label_ground")

\* line 105
CaptureLabelGround ==
    Label("c_label_ground", Ground, "ground", "c_label_wire")

\* line 106
CaptureLabelWire ==
    Label("c_label_wire", CatenaryWire, "catenary", "c_rp_left")

\* lines 109-114 for one camera.  What the capture service does with the path
\* of a missing camera is outside the script: it raises or hands out a
\* product all the same.
RenderProduct(here, cam, next) ==
    /\ pc = here
    /\ \/ /\ render_products' = Append(render_products, cam)
          /\ pc' = next
       \/ /\ ~IsValid(stage, cam)
          /\ render_products' = render_products
          /\ pc' = "raised"
    /\ UNCHANGED <<script, app, sceneVars, builderVars, i, updates, steps, drains,
                   writer, attaches, frame0, closes, callVars>>

\* lines 109-111
CaptureLeftRenderProduct == RenderProduct("c_rp_left", LeftCamera, "c_rp_right")

\* lines 112-114
CaptureRightRenderProduct == RenderProduct("c_rp_right", RightCamera, "c_writer")

\* lines 116-122
CaptureWriterInitialize ==
    /\ pc = "c_writer"
    /\ writer' = "initialized"
    /\ pc' = "c_attach"
    /\ UNCHANGED <<script, app, sceneVars, builderVars, i, updates, steps, drains,
                   render_products, attaches, frame0, closes, callVars>>

\* line 123, then the loop of line 126 starts
CaptureWriterAttach ==
    /\ pc = "c_attach"
    /\ writer' = "attached"
    /\ attaches' = attaches + 1
    /\ i' = 0
    /\ pc' = "c_step"
    /\ UNCHANGED <<script, app, sceneVars, builderVars, updates, steps, drains,
                   render_products, frame0, closes, callVars>>

\* lines 126-127
CaptureStep ==
    /\ pc = "c_step"
    /\ RangeHas(i, NUM_FRAMES)
    /\ steps' = steps + 1
    /\ pc' = "c_update"
    /\ UNCHANGED <<script, app, sceneVars, builderVars, i, updates, drains,
                   render_products, writer, attaches, frame0, closes, callVars>>

\* lines 128 and 130: update, then the frame-0 test
CaptureUpdate ==
    /\ pc = "c_update"
    /\ updates' = updates + 1
    /\ \/ /\ i = 0
          /\ i' = i
          /\ pc' = "c_check"
       \/ /\ i # 0
          /\ i' = i + 1
          /\ pc' = "c_step"
    /\ UNCHANGED <<script, app, sceneVars, builderVars, captureVars, closes, callVars>>

\* lines 131-140 raising on a baseline that is off
CaptureFrame0Check_RaiseOnMismatch ==
    /\ pc = "c_check"
    /\ frame0' = MeasuredBaseline(stage)
    /\ i' = i + 1
    /\ pc' = IF MeasuredBaseline(stage) = CaptureBaseline THEN "c_step" ELSE "raised"
    /\ UNCHANGED <<script, app, sceneVars, builderVars, updates, steps, drains,
                   render_products, writer, attaches, closes, callVars>>

\* lines 131-140: the world positions are read and the distance printed.
\* With a camera missing the transform of an invalid prim is read: the
\* bindings raise, or hand back the identity for it.
CaptureFrame0Check ==
    /\ pc = "c_check"
    /\ \/ /\ ~CamerasMissing(stage)
          /\ frame0' = MeasuredBaseline(stage)
          /\ pc' = "c_step"
       \/ /\ CamerasMissing(stage)
          /\ frame0' = MeasuredBaseline(stage)
          /\ pc' = "c_step"
       \/ /\ CamerasMissing(stage)
          /\ frame0' = frame0
          /\ pc' = "raised"
    /\ i' = i + 1
    /\ UNCHANGED <<script, app, sceneVars, builderVars, updates, steps, drains,
                   render_products, writer, attaches, closes, callVars>>

\* line 126 exhausted, line 142 starts
CaptureLoopExit ==
    /\ pc = "c_step"
    /\ ~RangeHas(i, NUM_FRAMES)
    /\ i' = 0
    /\ pc' = "c_drain"
    /\ UNCHANGED <<script, app, sceneVars, builderVars, updates, captureVars, closes, callVars>>

\* lines 142-143
CaptureDrain ==
    /\ pc = "c_drain"
    /\ RangeHas(i, DRAIN_UPDATES)
    /\ updates' = updates + 1
    /\ drains' = drains + 1
    /\ i' = i + 1
    /\ UNCHANGED <<script, pc, app, sceneVars, builderVars, steps, render_products,
                   writer, attaches, frame0, closes, callVars>>

\* lines 145-146
CaptureClose ==
    /\ pc = "c_drain"
    /\ ~RangeHas(i, DRAIN_UPDATES)
    /\ app' = "closed"
    /\ closes' = closes + 1
    /\ pc' = "done"
    /\ UNCHANGED <<script, sceneVars, builderVars, i, updates, captureVars, callVars>>

Builder ==
    \/ BuilderApp \/ BuilderNewStage \/ BuilderPantograph \/ BuilderRig
    \/ BuilderFocalLength \/ BuilderLeftCamera \/ BuilderRightCamera
    \/ BuilderGround \/ BuilderDomeLight \/ BuilderWirePoint \/ BuilderWire
    \/ BuilderExport \/ BuilderViewerUpdate \/ BuilderClose

Capture ==
    \/ CaptureApp \/ CaptureOpenStage \/ CaptureBaselineCall
    \/ CaptureLabelPantograph \/ CaptureLabelGround \/ CaptureLabelWire
    \/ CaptureLeftRenderProduct \/ CaptureRightRenderProduct
    \/ CaptureWriterInitialize \/ CaptureWriterAttach
    \/ CaptureStep \/ CaptureUpdate \/ CaptureFrame0Check \/ CaptureLoopExit
    \/ CaptureDrain \/ CaptureClose

Next == Builder \/ Capture

Spec == Init /\ [][Next]_vars

\* ------------------------------------------------------------ baseline runs
\* The two places that write the cameras' offsets, run on every baseline of
\* BaselineInputs: the camera definition of the Scene Builder on a stage that
\* holds the rig, and setup_stereo_baseline on every saved scene, repeatedly.
BaselineInit ==
    \/ Fresh("baseline", "define", NoFile, DefineRig(DefinePantograph(EmptyStage)))
    \/ \E sc \in SavedScenes(MaxOps, {LabelPaths}) :
          Fresh("baseline", "call", File(sc), sc)

\* lines 56-69 with BASELINE_M = b
DefineStereoCameras ==
    /\ pc = "define"
    /\ \E b \in BaselineInputs :
          /\ arg' = b
          /\ stage' = DefineCamera(
                        DefineCamera(stage, LeftCamera, BuilderLeftOffset(b)),
                        RightCamera, BuilderRightOffset(b))
    /\ pc' = "defined"
    /\ UNCHANGED <<script, app, scene_file, builderVars, i, updates, captureVars,
                   closes, prev_arg, calls, before>>

\* lines 30-88 with baseline_m = b
CallSetupStereoBaseline ==
    /\ pc = "call"
    /\ calls < MaxCalls
    /\ \E b \in BaselineInputs :
          /\ arg' = b
          /\ stage' = setup_stereo_baseline(stage, b)
    /\ before' = stage
    /\ prev_arg' = IF calls = 0 THEN -1 ELSE arg
    /\ calls' = calls + 1
    /\ UNCHANGED <<script, pc, app, scene_file, builderVars, i, updates, captureVars, closes>>

BaselineNext == DefineStereoCameras \/ CallSetupStereoBaseline

BaselineSpec == BaselineInit /\ [][BaselineNext]_vars

\* ------------------------------------------------------------- properties
InCapture == script = "capture"
InBuilder == script = "builder"
BothCameras(st) == LeftCamera \in st.prims /\ RightCamera \in st.prims

\* The two cameras' local poses mirror each other about the rig's origin
\* along X for baseline b: left at -b/2, right at +b/2, same axes.
MirrorSymmetric(st, b) ==
    LET l == LocalPose(st.ops[LeftCamera])
        r == LocalPose(st.ops[RightCamera])
    IN  /\ 2 * l.pos[1] = -b /\ l.pos[2] = 0 /\ l.pos[3] = 0
        /\ 2 * r.pos[1] = b /\ r.pos[2] = 0 /\ r.pos[3] = 0
        /\ l.ex = r.ex /\ l.ey = r.ey /\ l.ez = r.ez

\* C1: in the Capture Configurator, once setup_stereo_baseline(0.12) has
\* run on a scene that holds both cameras, the cameras' local poses are
\* mirror-symmetric about the rig's origin, before the first capture step
\* and at every step after it, whatever ops the cameras carried.
C1_MirrorSymmetricAfterBaseline ==
    (InCapture /\ calls >= 1 /\ BothCameras(stage))
        => MirrorSymmetric(stage, CaptureBaseline)

\* C2: every exit of the Capture Configurator, normal or by a raised error,
\* leaves the simulation session closed.
C2_SessionClosedOnEveryExit ==
    (InCapture /\ pc \in {"done", "raised"}) => (app = "closed" /\ closes = 1)

\* C3: the capture session's lifecycle is ordered: one attach to both render
\* products, no capture step before it; exactly NUM_FRAMES capture steps;
\* drain updates only after the last capture step; one close, after the
\* drain, with no step or update after it.
C3_Lifecycle ==
    InCapture =>
        /\ attaches <= 1 /\ closes <= 1
        /\ steps <= NUM_FRAMES /\ drains <= DRAIN_UPDATES
        /\ steps > 0 => (attaches = 1 /\ writer = "attached"
                         /\ render_products = <<LeftCamera, RightCamera>>)
        /\ drains > 0 => steps = NUM_FRAMES
        /\ app = "closed" <=> pc = "done"
        /\ app = "closed" =>
              /\ closes = 1 /\ attaches = 1
              /\ steps = NUM_FRAMES
              /\ drains = DRAIN_UPDATES
              /\ updates = NUM_FRAMES + DRAIN_UPDATES

C3_Witness ==
    /\ InCapture /\ pc = "done" /\ app = "closed"
    /\ steps = NUM_FRAMES /\ drains = DRAIN_UPDATES /\ attaches = 1

\* the artifact does not open, or lacks a prim that is to be labelled
SceneUnusable ==
    \/ ~scene_file.valid
    \/ \E p \in LabelPaths : p \notin scene_file.scene.prims

\* C4: when the scene fails to open or a node to be labelled is missing, the
\* run creates no render product, attaches no writer and issues no capture
\* step, never completes, and stops only by raising.
C4_UnusableSceneRaises ==
    (InCapture /\ SceneUnusable) =>
        /\ render_products = <<>> /\ writer = "none" /\ attaches = 0 /\ steps = 0
        /\ pc # "done"
        /\ pc # "raised" => ENABLED Next

C4_Witness ==
    /\ InCapture /\ pc = "raised" /\ scene_file.valid
    /\ Pantograph \in stage.prims /\ Ground \notin stage.prims
    /\ stage.semantics[Pantograph] = "pantograph"

\* C5: with a camera missing, setup_stereo_baseline returns without raising
\* and leaves the stage, the present camera's ops included, as it found it.
C5_SkippedWhenCameraMissing ==
    (script = "baseline" /\ calls >= 1 /\ ~BothCameras(before)) =>
        (stage = before /\ pc = "call")

C5_Witness ==
    /\ script = "baseline" /\ calls >= 1 /\ arg > 0
    /\ LeftCamera \notin before.prims /\ RightCamera \in before.prims
    /\ Len(before.ops[RightCamera]) = 2
    /\ stage.ops[RightCamera] = before.ops[RightCamera]

\* the X offset held by the first translate op of a camera
WrittenOffset(st, cam) == st.ops[cam][FirstTranslate(st.ops[cam], 1)].value[1]

OffsetsSplit(st, b) ==
    /\ WrittenOffset(st, LeftCamera) + WrittenOffset(st, RightCamera) = 0
    /\ WrittenOffset(st, RightCamera) - WrittenOffset(st, LeftCamera) = b
    /\ b = 0 => st.ops[LeftCamera][FirstTranslate(st.ops[LeftCamera], 1)].value
                  = st.ops[RightCamera][FirstTranslate(st.ops[RightCamera], 1)].value

\* C6: for every baseline b >= 0 the offsets written by the camera
\* definition of the Scene Builder and by setup_stereo_baseline sum to 0 and
\* differ by b; with b = 0 the cameras coincide and nothing is raised.
C6_OffsetsSumToZero ==
    /\ (script = "baseline" /\ pc = "defined") => OffsetsSplit(stage, arg)
    /\ (script = "baseline" /\ calls >= 1 /\ BothCameras(before))
          => (OffsetsSplit(stage, arg) /\ pc = "call")

C6_Witness ==
    /\ script = "baseline" /\ calls >= 1 /\ arg = 0 /\ BothCameras(before)
    /\ FirstTranslate(before.ops[LeftCamera], 1) > 0
    /\ WrittenOffset(before, LeftCamera) # 0
    /\ WrittenOffset(stage, LeftCamera) = 0 /\ WrittenOffset(stage, RightCamera) = 0

\* C7: the focal length attribute of each camera the Scene Builder defines
\* equals (IMAGE_WIDTH / 2) / tan(HFOV_DEG / 2) * pixel pitch.
C7_FocalLengthIsDerived ==
    \A c \in Cams :
        (InBuilder /\ c \in stage.prims) =>
            stage.camera[c].focalLength = FocalLengthFromHfov(IMAGE_WIDTH, HFOV_DEG)

\* C8: the wire the Scene Builder defines has 21 points, x evenly spaced
\* and increasing from -3.0 to 3.0, y = 0, z = 1.8 + 0.02 x^2, and its
\* vertex count and number of widths equal the number of points.
C8_CatenaryWire ==
    (InBuilder /\ CatenaryWire \in stage.prims) =>
        LET pts == stage.wire.points
        IN  /\ Len(pts) = 21
            /\ pts[1][1] = -30000 /\ pts[1][3] = 19800
            /\ pts[11][1] = 0 /\ pts[11][3] = 18000
            /\ pts[21][1] = 30000 /\ pts[21][3] = 19800
            /\ \A k \in 1..Len(pts) :
                  /\ pts[k][2] = 0
                  /\ 500000 * (pts[k][3] - 18000) = pts[k][1] * pts[k][1]
            /\ \A k \in 1..(Len(pts) - 1) : pts[k + 1][1] - pts[k][1] = 3000
            /\ stage.wire.curveVertexCounts = <<Len(pts)>>
            /\ Len(stage.wire.widths) = Len(pts)

C8_Witness ==
    /\ InBuilder /\ pc = "done" /\ CatenaryWire \in stage.prims
    /\ scene_file.valid /\ Len(scene_file.scene.wire.points) = 21

\* the stage the capture holds once the baseline is asserted and the three
\* prims are labelled
PreparedStage ==
    set_semantic_label(
      set_semantic_label(
        set_semantic_label(setup_stereo_baseline(scene_file.scene, CaptureBaseline),
                           Pantograph, "pantograph"),
        Ground, "ground"),
      CatenaryWire, "catenary")

\* C9: the frame-0 baseline check, whatever distance it measures, changes
\* no scene state and does not abort: the run goes on to issue all
\* NUM_FRAMES capture steps, drain and close.
C9_Frame0CheckIsReadOnly ==
    (InCapture /\ frame0 >= 0 /\ BothCameras(stage)) =>
        /\ stage = PreparedStage
        /\ frame0 = MeasuredBaseline(PreparedStage)
        /\ pc # "raised"
        /\ pc # "done" => ENABLED Next
        /\ steps >= 1
        /\ pc = "done" => (/\ app = "closed" /\ steps = NUM_FRAMES
                           /\ drains = DRAIN_UPDATES)

C9_Witness ==
    /\ InCapture /\ pc = "done" /\ BothCameras(stage)
    /\ frame0 >= 0 /\ frame0 # CaptureBaseline
    /\ steps = NUM_FRAMES

\* the ops of one camera after a call, against those before it: one
\* translate op appended when there was none, else only the first translate
\* op rewritten
OnlyTranslateTouched(old, new) ==
    LET k == FirstTranslate(old, 1)
    IN  IF k = 0
        THEN /\ Len(new) = Len(old) + 1
             /\ SubSeq(new, 1, Len(old)) = old
             /\ new[Len(new)].type = "translate"
        ELSE /\ Len(new) = Len(old)
             /\ new[k].type = "translate"
             /\ \A j \in 1..Len(old) : j # k => new[j] = old[j]

\* C10: setup_stereo_baseline is idempotent and touches only the cameras'
\* translate op: a second call with the same baseline changes nothing; a
\* call adds one op to a camera only if it had no translate op, rewrites
\* only the first translate op, and leaves everything else as it was.
C10_IdempotentTranslateOnly ==
    (script = "baseline" /\ calls >= 1 /\ BothCameras(before)) =>
        /\ \A c \in Cams : OnlyTranslateTouched(before.ops[c], stage.ops[c])
        /\ [stage EXCEPT !.ops[LeftCamera] = before.ops[LeftCamera],
                         !.ops[RightCamera] = before.ops[RightCamera]] = before
        /\ (calls >= 2 /\ arg = prev_arg) => stage = before

C10_Witness ==
    /\ script = "baseline" /\ calls = 2 /\ arg = prev_arg /\ arg > 0
    /\ BothCameras(before)
    /\ Len(before.ops[LeftCamera]) = 3
    /\ before.ops[LeftCamera][1].type # "translate"
    /\ stage = before

====
